---- MODULE Spec2Model ----
(***************************************************************************)
(* The useLiveKit hook of aura-voice-ai: the session state a React         *)
(* component keeps for a LiveKit voice agent (robot state, emotional       *)
(* state, audio level, transcript), the room event handlers that write it, *)
(* the audio analysis frame loop and the connect / send operations.        *)
(*                                                                         *)
(* The repository holds three revisions of the hook that the statements    *)
(* checked here speak about:                                               *)
(*   "main"  src/src/hooks/useLiveKit.ts                                   *)
(*   "p1"    src/unnamed/part_001                                          *)
(*   "p2"    src/unnamed/part_002                                          *)
(* The variable `variant` says which revision a behaviour runs.            *)
(*                                                                         *)
(* Numbers: the code computes levels as IEEE doubles in [0,1]; here a      *)
(* level is an integer number of 1/Scale units and every division rounds   *)
(* down.  Byte samples keep their range 0..255.                            *)
(***************************************************************************)
EXTENDS Integers, Sequences, FiniteSets, TLC

(***************************************************************************)
(* Bounds of the model.                                                    *)
(***************************************************************************)
\* samples per analysis window (frequencyBinCount in the code)
BufLen == 2
\* transcript entries the environment produces before it stops sending
MaxMsgs == 2
\* readings of Date.now() after the first
MaxClock == 1

Scale == 10 * 10

Variants == {"main", "p1", "p2"}

RobotStates == {"idle", "listening", "thinking", "speaking", "processing", "error"}
EmotionalStates == {"neutral", "happy", "thinking", "confused", "surprised"}

(***************************************************************************)
(* Arithmetic helpers.                                                     *)
(***************************************************************************)
Min(a, b) == IF a < b THEN a ELSE b
Max(a, b) == IF a > b THEN a ELSE b
Abs(a) == IF a < 0 THEN -a ELSE a

RECURSIVE SqrtSearch(_, _, _)
\* the largest r in lo..hi with r*r <= n (lo*lo <= n assumed)
SqrtSearch(n, lo, hi) ==
    IF lo >= hi THEN lo
    ELSE LET mid == (lo + hi + 1) \div 2
         IN IF mid * mid <= n THEN SqrtSearch(n, mid, hi)
            ELSE SqrtSearch(n, lo, mid - 1)

\* Math.sqrt on a scaled non-negative value x (x = v * Scale): sqrt(v) * Scale
SqrtScaled(x) == SqrtSearch(x * Scale, 0, x * Scale + 1)

RECURSIVE SumSeq(_)
SumSeq(s) == IF s = <<>> THEN 0 ELSE Head(s) + SumSeq(Tail(s))

RECURSIVE MaxSeq(_)
MaxSeq(s) == IF s = <<>> THEN 0 ELSE Max(Head(s), MaxSeq(Tail(s)))

\* the first index (from 0) holding the largest value, or 0: the scan
\* `if (dataArray[i] > maxValue)` starting from maxValue = 0, maxIndex = 0
MaxIndex(s) ==
    IF MaxSeq(s) = 0 THEN 0
    ELSE (CHOOSE i \in 1..Len(s) :
            /\ s[i] = MaxSeq(s)
            /\ \A j \in 1..(i - 1) : s[j] < s[i]) - 1

(***************************************************************************)
(* The analyser's sample windows: getByteTimeDomainData and                *)
(* getByteFrequencyData fill two byte arrays of frequencyBinCount entries. *)
(* 128 is the time-domain byte of silence.                                 *)
(***************************************************************************)
TimeBytes == {0, 128}
FreqBytes == {0, 255}

\* the windows the model draws from: every sample the same byte, or silence
\* with one sample set, at one of the given places
Shapes(bytes, rest, places) ==
    {[i \in 1..BufLen |-> b] : b \in bytes}
    \cup {[i \in 1..BufLen |-> IF i = k THEN b ELSE rest] : k \in places, b \in bytes}

\* the place of a time-domain sample changes nothing analyzeAudio computes; the
\* place of a frequency bin is what setFrequency reads
Windows == [time : Shapes(TimeBytes, 128, {1}), freq : Shapes(FreqBytes, 0, 1..BufLen)]

SilentWindow == [time |-> [i \in 1..BufLen |-> 128], freq |-> [i \in 1..BufLen |-> 0]]

\* sum of (timeDataArray[i] - 128)^2, in squared byte units
SumSquaresBytes(t) == SumSeq([i \in 1..Len(t) |-> (t[i] - 128) * (t[i] - 128)])

\* rms = Math.sqrt(sumSquares / timeDataArray.length), normalized = (t - 128) / 128
Rms(t) == (SqrtSearch((SumSquaresBytes(t) * 10000) \div Len(t), 0, 12800) * Scale) \div 12800

\* maxAmplitude = max |(t - 128) / 128|
MaxAmplitude(t) == (MaxSeq([i \in 1..Len(t) |-> Abs(t[i] - 128)]) * Scale) \div 128

\* the average of the frequency bins over 128, without the clamp to 1
FreqLevelUnclamped(f) == (SumSeq(f) * Scale) \div (Len(f) * 128)

\* freqLevel = Math.min(freqAverage / 128, 1)
FreqLevel(f) == Min((SumSeq(f) * Scale) \div (Len(f) * 128), Scale)

\* setFrequency(normalizedFreq * 3), normalizedFreq = maxIndex / bufferLength
FrequencyOf(f) == (MaxIndex(f) * 3 * Scale) \div Len(f)

\* useLiveKit.ts: normalizedLevel = min(rms * 2, 1); combined = 0.7 nl + 0.3 fl
CombinedLevelMain(w) ==
    LET normalizedLevel == Min(Rms(w.time) * 2, Scale)
    IN (normalizedLevel * 7 + FreqLevel(w.freq) * 3) \div 10

\* part_001: normalizedLevel = Math.min(average / 128, 1)
NormalizedLevelP1(w) == FreqLevel(w.freq)

\* part_002: normalizedLevel = min((rms * 0.7 + maxAmplitude * 0.3) * 5, 1);
\* combined = 0.8 nl + 0.2 fl
CombinedLevelP2(w) ==
    LET normalizedLevel ==
            Min(((Rms(w.time) * 7 + MaxAmplitude(w.time) * 3) * 5) \div 10, Scale)
    IN (normalizedLevel * 8 + FreqLevel(w.freq) * 2) \div 10

\* part_002: smoothedLevel = combinedLevel * 0.8 + lastAudioLevel * 0.2
SmoothedLevel(combined, last) == (combined * 8 + last * 2) \div 10

\* the smoothed level published as it is
FinalLevelUnraised(smoothed) == smoothed

\* part_002: finalLevel = smoothed > 0.01 ? Math.max(smoothed, 0.1) : smoothed
FinalLevel(smoothed) ==
    IF smoothed * 100 > Scale THEN Max(smoothed, Scale \div 10) ELSE smoothed

\* part_002: hasAudioActivity = finalLevel > 0.05
HasAudioActivity(level) == level * 100 > 5 * Scale

\* part_002: finalLevel < 0.02
VeryLow(level) == level * 100 < 2 * Scale

(***************************************************************************)
(* State.                                                                  *)
(***************************************************************************)
VARIABLES
    variant,          \* which revision of the hook runs
    \* React state of the hook (useState)
    isConnected, isSpeaking, isListening, messages, robotState,
    audioLevel, frequency, emotionalState,
    audioAnalyzer,    \* 0: null; k > 0: the k-th AnalyserNode created
    \* the LiveKit room
    roomState,        \* "disconnected" | "connecting" | "connected"
    closing,          \* room.disconnect() was called and has not finished
    trackSubscribed,  \* a remote audio track is subscribed in this session
    \* asynchronous operations of the hook
    connectPc,        \* where the running connect() call waits
    sends,            \* sendMessage calls whose transmission is pending
    now,              \* the reading of Date.now()
    nextUid,          \* messages created so far (a serial, not program state)
    \* the audio analysis effect
    loops,            \* frame loops scheduled with requestAnimationFrame
    lastAudioLevel,   \* part_002: the loop closure's lastAudioLevel
    effDeps,          \* the dependency values the effect last ran with
    \* the audio elements and contexts
    volume,           \* useState(1), in 1/Scale units
    openContexts,     \* the AudioContexts created and not closed, by number
    capturedContext,  \* the audioContext the room effect's cleanup holds (0: null)
    \* the local microphone
    isMuted,          \* useState(false)
    micEnabled,       \* what setMicrophoneEnabled last resolved with
    muteCall,         \* the toggleMute call that waits: "none" | "mute" | "unmute"
    \* history (read by no handler)
    lastStep,         \* the handler that ran last, with the state it started from
    vocalizing,       \* part_002: -1, or the silent frames since the peer's
                      \* unmuted / playback event
    tornDown          \* a Disconnected event came and connect() was not
                      \* called since

reactVars == <<isConnected, isSpeaking, isListening, messages, robotState,
               audioLevel, frequency, emotionalState, audioAnalyzer>>
roomVars == <<roomState, closing, trackSubscribed>>
asyncVars == <<connectPc, sends, now, nextUid>>
loopVars == <<loops, lastAudioLevel, effDeps>>
muteVars == <<isMuted, micEnabled, muteCall>>
mediaVars == <<volume, openContexts, capturedContext, muteVars>>
histVars == <<lastStep, vocalizing, tornDown>>
vars == <<variant, reactVars, roomVars, asyncVars, loopVars, mediaVars, histVars>>

\* history of a step no property looks back at
NoEvent == [ev |-> "none", rs |-> "none", sp |-> FALSE, arg |-> "none"]
Unobserved == lastStep' = NoEvent
\* history of a step of handler ev
ObservedWith(ev, arg) ==
    lastStep' = [ev |-> ev, rs |-> robotState, sp |-> isSpeaking, arg |-> arg]
Observed(ev) == ObservedWith(ev, "none")

\* the dependency array of the audio analysis effect
Deps ==
    IF variant = "p2" THEN <<audioAnalyzer, robotState>>
    ELSE <<isSpeaking, audioAnalyzer, robotState>>

\* React has rendered a change of a dependency and not yet run the effect
EffectPending == Deps # effDeps

Init ==
    /\ variant \in Variants
    /\ isConnected = FALSE
    /\ isSpeaking = FALSE
    /\ isListening = FALSE
    /\ messages = <<>>
    /\ robotState = "idle"
    /\ audioLevel = 0
    /\ frequency = 0
    /\ emotionalState = "neutral"
    /\ audioAnalyzer = 0
    /\ roomState = "disconnected"
    /\ closing = FALSE
    /\ trackSubscribed = FALSE
    /\ connectPc = "idle"
    /\ sends = {}
    /\ now = 0
    /\ nextUid = 0
    /\ loops = 0
    /\ lastAudioLevel = 0
    /\ effDeps = IF variant = "p2" THEN <<0, "idle">> ELSE <<FALSE, 0, "idle">>
    /\ volume = Scale
    /\ openContexts = {}
    /\ capturedContext = 0
    /\ isMuted = FALSE
    /\ micEnabled = FALSE
    /\ muteCall = "none"
    /\ lastStep = NoEvent
    /\ vocalizing = -1
    /\ tornDown = FALSE

(***************************************************************************)
(* The audio analysis frame loop.                                          *)
(***************************************************************************)
\* frame loops one effect run may leave scheduled in part_001 (no cleanup)
MaxLoops == 2

\* what the analyser can deliver: the remote audio plays only while the room
\* is connected
AllowedWindows == IF roomState = "connected" THEN Windows ELSE {SilentWindow}

\* the audio path with the band above 0.7 alone
EmotionFromAudioHighOnly(level, em) ==
    IF level * 10 > 7 * Scale THEN "happy" ELSE em

\* if (level > 0.7) happy; else if (level > 0.4) neutral
EmotionFromAudio(level, em) ==
    IF level * 10 > 7 * Scale THEN "happy"
    ELSE IF level * 10 > 4 * Scale THEN "neutral"
    ELSE em

\* a speaking decision with the one threshold 0.5 and no band
SpeakingDecisionOneThreshold(final, sp, rs) ==
    IF final * 10 > 5 * Scale
    THEN [isSpeaking |-> TRUE, robotState |-> "speaking"]
    ELSE [isSpeaking |-> FALSE, robotState |-> rs]

\* part_002, the speaking decision of one frame: the closure's robotState is rs
SpeakingDecision(final, sp, rs) ==
    IF HasAudioActivity(final)
    THEN [isSpeaking |-> TRUE, robotState |-> "speaking"]
    ELSE IF VeryLow(final)
    THEN [isSpeaking |-> FALSE,
          robotState |-> IF rs # "thinking" /\ rs # "idle" THEN "listening" ELSE rs]
    ELSE [isSpeaking |-> sp, robotState |-> rs]

\* one call of analyzeAudio on window w: the state it publishes
Analyze(w, last) ==
    IF variant = "p2"
    THEN LET smoothed == SmoothedLevel(CombinedLevelP2(w), last)
             final == FinalLevel(smoothed)
             d == SpeakingDecision(final, isSpeaking, robotState)
         IN [audioLevel |-> final,
             frequency |-> FrequencyOf(w.freq),
             emotionalState |-> EmotionFromAudio(smoothed, emotionalState),
             isSpeaking |-> d.isSpeaking,
             robotState |-> d.robotState,
             lastAudioLevel |-> smoothed]
    ELSE LET level == IF variant = "p1" THEN NormalizedLevelP1(w)
                      ELSE CombinedLevelMain(w)
         IN [audioLevel |-> level,
             frequency |-> FrequencyOf(w.freq),
             emotionalState |-> EmotionFromAudio(level, emotionalState),
             isSpeaking |-> isSpeaking,
             robotState |-> robotState,
             lastAudioLevel |-> lastAudioLevel]

Publish(r) ==
    /\ audioLevel' = r.audioLevel
    /\ frequency' = r.frequency
    /\ emotionalState' = r.emotionalState
    /\ isSpeaking' = r.isSpeaking
    /\ robotState' = r.robotState
    /\ lastAudioLevel' = r.lastAudioLevel

\* history: the frames in a row whose analysed level is below 0.01, counted up
\* to 5 while the peer's last unmuted / playback event stands
SilentFrames(w) ==
    IF variant = "p2" /\ vocalizing >= 0
    THEN (IF CombinedLevelP2(w) * 100 < Scale THEN Min(vocalizing + 1, 5) ELSE 0)
    ELSE vocalizing

\* a requestAnimationFrame callback of a scheduled loop
Tick(w) ==
    /\ loops > 0
    /\ ~EffectPending
    /\ w \in AllowedWindows
    /\ Publish(Analyze(w, lastAudioLevel))
    /\ Observed("Tick")
    /\ vocalizing' = SilentFrames(w)
    /\ UNCHANGED tornDown
    /\ UNCHANGED mediaVars
    /\ UNCHANGED <<variant, isConnected, isListening, messages, audioAnalyzer,
                   roomVars, asyncVars, loops, effDeps>>

\* the !isSpeaking branch that leaves emotionalState alone
EmotionWhenSilentKept(rs, em) == em

\* the !isSpeaking branch of the effect (useLiveKit.ts, part_001)
EmotionWhenSilent(rs, em) ==
    IF rs = "thinking" THEN "thinking"
    ELSE IF rs = "idle" THEN "neutral"
    ELSE em

\* the effect runs because isSpeaking, one of its dependencies, went from true
\* to false (useLiveKit.ts, part_001)
SpeakingStopped == variant # "p2" /\ effDeps[1] = TRUE /\ ~isSpeaking

\* React runs the audio analysis effect: the previous run's cleanup, then the body
AnalysisEffect(w) ==
    /\ EffectPending
    /\ effDeps' = Deps
    /\ LET cleaned == IF variant = "p1" THEN loops ELSE 0
       IN IF variant = "p2"
          THEN IF audioAnalyzer # 0
               THEN /\ w \in AllowedWindows
                    /\ Publish(Analyze(w, 0))
                    /\ loops' = 1
               ELSE /\ w = SilentWindow
                    /\ audioLevel' = 0
                    /\ frequency' = 0
                    /\ isSpeaking' = FALSE
                    /\ loops' = cleaned
                    /\ UNCHANGED <<emotionalState, robotState, lastAudioLevel>>
          ELSE IF isSpeaking /\ audioAnalyzer # 0
               THEN /\ w \in AllowedWindows
                    /\ Publish(Analyze(w, 0))
                    /\ loops' = Min(cleaned + 1, MaxLoops)
               ELSE IF ~isSpeaking
               THEN /\ w = SilentWindow
                    /\ audioLevel' = 0
                    /\ frequency' = 0
                    /\ emotionalState' = EmotionWhenSilent(robotState, emotionalState)
                    /\ loops' = cleaned
                    /\ UNCHANGED <<isSpeaking, robotState, lastAudioLevel>>
               ELSE /\ w = SilentWindow
                    /\ loops' = cleaned
                    /\ UNCHANGED <<audioLevel, frequency, emotionalState,
                                   isSpeaking, robotState, lastAudioLevel>>
    /\ IF audioAnalyzer # 0 /\ (variant = "p2" \/ isSpeaking)
       THEN Observed("Tick") /\ vocalizing' = SilentFrames(w)
       ELSE IF SpeakingStopped
       THEN ObservedWith("SpeakingStopped", emotionalState) /\ UNCHANGED vocalizing
       ELSE Unobserved /\ UNCHANGED vocalizing
    /\ UNCHANGED tornDown
    /\ UNCHANGED mediaVars
    /\ UNCHANGED <<variant, isConnected, isListening, messages, audioAnalyzer,
                   roomVars, asyncVars>>

(***************************************************************************)
(* Room lifecycle handlers.                                                *)
(***************************************************************************)
\* subscriptions of a remote audio track the peer makes before it stops
MaxTracks == 1

\* RoomEvent.Connected handler
OnConnected ==
    /\ isConnected' = TRUE
    /\ robotState' = "listening"

\* a Disconnected handler that forgets setRobotState("idle")
OnDisconnectedKeepsRobotState ==
    /\ isConnected' = FALSE
    /\ isSpeaking' = FALSE
    /\ UNCHANGED robotState

\* RoomEvent.Disconnected handler
OnDisconnected ==
    /\ isConnected' = FALSE
    /\ isSpeaking' = FALSE
    /\ robotState' = "idle"

\* a catch block that swallows the error: connect() resolves
ConnectCatchSwallows ==
    /\ robotState' = "error"
    /\ connectPc' = "idle"
    /\ ObservedWith("ConnectSettled", "resolved")

\* the catch block of connect(): setRobotState("error"); throw error
ConnectCatch ==
    /\ robotState' = "error"
    /\ connectPc' = "idle"
    /\ ObservedWith("ConnectSettled", "rejected")

\* room.connect(url, token) is called: a disconnected room starts connecting; a
\* room that is still closing finishes that first (the room's disconnect lock)
RoomStateOnConnectCall ==
    IF roomState = "disconnected" /\ ~closing THEN "connecting" ELSE roomState

\* connect(url, token): setRobotState("processing"), then the first await.
\* The page offers connect while isConnected is false, one call at a time.
ConnectBegin(withArgs) ==
    /\ ~EffectPending
    /\ connectPc = "idle"
    /\ ~isConnected
    /\ robotState' = "processing"
    /\ IF withArgs
       THEN /\ connectPc' = "roomConnect"
            /\ roomState' = RoomStateOnConnectCall
       ELSE /\ connectPc' = IF variant = "p2" THEN "fetchUrlLocal" ELSE "fetchUrl"
            /\ UNCHANGED roomState
    /\ Unobserved /\ UNCHANGED vocalizing
    /\ tornDown' = FALSE
    /\ UNCHANGED mediaVars
    /\ UNCHANGED <<variant, isConnected, isSpeaking, isListening, messages,
                   audioLevel, frequency, emotionalState, audioAnalyzer,
                   closing, trackSubscribed, sends, now, nextUid, loopVars>>

FetchOutcomes == {"ok", "notOk", "throws", "badBody"}

\* a fetchFromBackend that has the local endpoint only
NextEndpointLocalOnly(pc) == "throw"

\* part_002 fetchFromBackend: where a failed request leads
\* (local endpoint first, then the remote one, then the throw)
NextEndpoint(pc) ==
    CASE pc = "fetchUrlLocal" -> "fetchUrlRemote"
      [] pc = "fetchTokenLocal" -> "fetchTokenRemote"
      [] OTHER -> "throw"

\* the stage that follows a usable response
AfterFetch(pc) ==
    IF pc \in {"fetchUrl", "fetchUrlLocal", "fetchUrlRemote"}
    THEN (IF variant = "p2" THEN "fetchTokenLocal" ELSE "fetchToken")
    ELSE "roomConnect"

FetchStages == {"fetchUrl", "fetchToken", "fetchUrlLocal", "fetchUrlRemote",
                "fetchTokenLocal", "fetchTokenRemote"}

\* the pending fetch of connect() settles: ok with a usable body, ok with a body
\* the code rejects (no url, placeholder url, error, no token), a non-ok status,
\* or a network error
FetchSettles(outcome) ==
    /\ ~EffectPending
    /\ connectPc \in FetchStages
    /\ outcome \in FetchOutcomes
    /\ LET retry == variant = "p2" /\ outcome \in {"notOk", "throws"}
                       /\ NextEndpoint(connectPc) # "throw"
       IN IF retry
          THEN /\ connectPc' = NextEndpoint(connectPc)
               /\ Unobserved
               /\ UNCHANGED <<robotState, roomState>>
          ELSE IF outcome = "ok"
          THEN /\ connectPc' = AfterFetch(connectPc)
               /\ roomState' = IF AfterFetch(connectPc) = "roomConnect"
                               THEN RoomStateOnConnectCall ELSE roomState
               /\ Unobserved
               /\ UNCHANGED robotState
          ELSE /\ ConnectCatch
               /\ UNCHANGED roomState
    /\ UNCHANGED vocalizing
    /\ UNCHANGED tornDown
    /\ UNCHANGED mediaVars
    /\ UNCHANGED <<variant, isConnected, isSpeaking, isListening, messages,
                   audioLevel, frequency, emotionalState, audioAnalyzer,
                   closing, trackSubscribed, sends, now, nextUid, loopVars>>

\* part_002 fetchWithTimeout: the 4000 ms timer aborts the local request
FetchTimeout ==
    /\ ~EffectPending
    /\ variant = "p2"
    /\ connectPc \in {"fetchUrlLocal", "fetchTokenLocal"}
    /\ connectPc' = NextEndpoint(connectPc)
    /\ Unobserved /\ UNCHANGED vocalizing
    /\ UNCHANGED tornDown
    /\ UNCHANGED mediaVars
    /\ UNCHANGED <<variant, reactVars, roomVars, sends, now, nextUid, loopVars>>

\* room.connect resolves: the room emits Connected, then connect() goes on to
\* setMicrophoneEnabled(true)
RoomConnectResolves ==
    /\ ~EffectPending
    /\ connectPc = "roomConnect"
    /\ ~closing
    /\ roomState = "connecting"
    /\ roomState' = "connected"
    /\ OnConnected
    /\ connectPc' = "micEnable"
    /\ Observed("Connected") /\ UNCHANGED vocalizing
    /\ UNCHANGED tornDown
    /\ UNCHANGED mediaVars
    /\ UNCHANGED <<variant, isSpeaking, isListening, messages,
                   audioLevel, frequency, emotionalState, audioAnalyzer,
                   closing, trackSubscribed, sends, now, nextUid, loopVars>>

\* room.connect rejects (bad url or token, network): the catch block runs
RoomConnectRejects ==
    /\ ~EffectPending
    /\ connectPc = "roomConnect"
    /\ roomState = "connecting"
    /\ ~closing
    /\ roomState' = "disconnected"
    /\ ConnectCatch
    /\ UNCHANGED vocalizing
    /\ UNCHANGED tornDown
    /\ UNCHANGED mediaVars
    /\ UNCHANGED <<variant, isConnected, isSpeaking, isListening, messages,
                   audioLevel, frequency, emotionalState, audioAnalyzer,
                   closing, trackSubscribed, sends, now, nextUid, loopVars>>

\* setMicrophoneEnabled(true) resolves: setIsListening(true)
MicEnableResolves ==
    /\ ~EffectPending
    /\ connectPc = "micEnable"
    /\ isListening' = TRUE
    /\ connectPc' = "idle"
    /\ micEnabled' = TRUE
    /\ ObservedWith("ConnectSettled", "resolved") /\ UNCHANGED vocalizing
    /\ UNCHANGED tornDown
    /\ UNCHANGED <<volume, openContexts, capturedContext, isMuted, muteCall>>
    /\ UNCHANGED <<variant, isConnected, isSpeaking, messages, robotState,
                   audioLevel, frequency, emotionalState, audioAnalyzer,
                   roomVars, sends, now, nextUid, loopVars>>

\* setMicrophoneEnabled(true) rejects (permission denied, no device)
MicEnableRejects ==
    /\ ~EffectPending
    /\ connectPc = "micEnable"
    /\ ConnectCatch
    /\ UNCHANGED vocalizing
    /\ UNCHANGED tornDown
    /\ UNCHANGED mediaVars
    /\ UNCHANGED <<variant, isConnected, isSpeaking, isListening, messages,
                   audioLevel, frequency, emotionalState, audioAnalyzer,
                   roomVars, sends, now, nextUid, loopVars>>

\* disconnect(): room.disconnect() (not awaited), setMessages([]).  A room that
\* is connecting has its pending connect rejected.
Disconnect ==
    /\ ~EffectPending
    /\ messages' = <<>>
    /\ closing' = (closing \/ roomState \in {"connected", "connecting"})
    /\ connectPc' = IF connectPc = "roomConnect" /\ roomState = "connecting" /\ ~closing
                    THEN "aborted" ELSE connectPc
    /\ Unobserved /\ UNCHANGED vocalizing
    /\ UNCHANGED tornDown
    /\ UNCHANGED mediaVars
    /\ UNCHANGED <<variant, isConnected, isSpeaking, isListening, robotState,
                   audioLevel, frequency, emotionalState, audioAnalyzer,
                   roomState, trackSubscribed, sends, now, nextUid, loopVars>>

\* the rejection of the aborted room.connect reaches connect()'s catch block
ConnectAborted ==
    /\ ~EffectPending
    /\ connectPc = "aborted"
    /\ ConnectCatch
    /\ UNCHANGED vocalizing
    /\ UNCHANGED tornDown
    /\ UNCHANGED mediaVars
    /\ UNCHANGED <<variant, isConnected, isSpeaking, isListening, messages,
                   audioLevel, frequency, emotionalState, audioAnalyzer,
                   roomVars, sends, now, nextUid, loopVars>>

\* room.disconnect() finishes: the room emits Disconnected; a room.connect call
\* that waited for it starts connecting
RoomClosed ==
    /\ ~EffectPending
    /\ closing
    /\ closing' = FALSE
    /\ roomState' = IF connectPc = "roomConnect" THEN "connecting" ELSE "disconnected"
    /\ trackSubscribed' = FALSE
    /\ OnDisconnected
    /\ Observed("Disconnected") /\ vocalizing' = -1
    /\ tornDown' = (connectPc = "idle")
    /\ UNCHANGED mediaVars
    /\ UNCHANGED <<variant, isListening, messages, audioLevel, frequency,
                   emotionalState, audioAnalyzer, asyncVars, loopVars>>

\* handlers that wait until an analyzer is attached
InSessionWithAnalyzer ==
    ~EffectPending /\ roomState = "connected" /\ ~closing /\ audioAnalyzer # 0

\* the server or the network ends the session: the room emits Disconnected
RemoteDisconnect ==
    /\ ~EffectPending
    /\ roomState = "connected"
    /\ ~closing
    /\ roomState' = "disconnected"
    /\ trackSubscribed' = FALSE
    /\ OnDisconnected
    /\ Observed("Disconnected") /\ vocalizing' = -1
    /\ tornDown' = (connectPc = "idle")
    /\ UNCHANGED mediaVars
    /\ UNCHANGED <<variant, isListening, messages, audioLevel, frequency,
                   emotionalState, audioAnalyzer, closing, asyncVars, loopVars>>

(***************************************************************************)
(* Room events of a connected session.                                     *)
(***************************************************************************)
InSession == ~EffectPending /\ roomState = "connected" /\ ~closing

\* RoomEvent.TrackSubscribed for a remote audio track: a new AudioContext and
\* AnalyserNode; part_002 also listens to the track's muted / unmuted events
TrackSubscribed ==
    /\ InSession
    /\ audioAnalyzer < MaxTracks
    /\ audioAnalyzer' = audioAnalyzer + 1
    /\ trackSubscribed' = TRUE
    /\ Unobserved /\ UNCHANGED vocalizing
    /\ UNCHANGED tornDown
    /\ openContexts' = openContexts \cup {audioAnalyzer + 1}
    /\ UNCHANGED <<volume, capturedContext, muteVars>>
    /\ UNCHANGED <<variant, isConnected, isSpeaking, isListening, messages,
                   robotState, audioLevel, frequency, emotionalState,
                   roomState, closing, asyncVars, loopVars>>

\* RoomEvent.AudioPlaybackStatusChanged; isPlaying = room.canPlaybackAudio
AudioPlaybackStatusChanged(isPlaying) ==
    /\ InSession
    /\ IF variant = "p2"
       THEN IF isPlaying
            THEN isSpeaking' = TRUE /\ robotState' = "speaking"
            ELSE UNCHANGED <<isSpeaking, robotState>>
       ELSE /\ isSpeaking' = isPlaying
            /\ robotState' = IF isPlaying THEN "speaking" ELSE "listening"
    /\ Unobserved
    /\ vocalizing' = IF variant # "p2" THEN vocalizing
                     ELSE IF isPlaying THEN Max(vocalizing, 0) ELSE -1
    /\ UNCHANGED tornDown
    /\ UNCHANGED mediaVars
    /\ UNCHANGED <<variant, isConnected, isListening, messages, audioLevel,
                   frequency, emotionalState, audioAnalyzer,
                   roomVars, asyncVars, loopVars>>

\* part_002: track.on("muted") / track.on("unmuted") of the agent's audio track
TrackMuteChanged(muted) ==
    /\ InSession
    /\ variant = "p2"
    /\ trackSubscribed
    /\ isSpeaking' = ~muted
    /\ robotState' = IF muted THEN "listening" ELSE "speaking"
    /\ Unobserved
    /\ vocalizing' = IF muted THEN -1 ELSE Max(vocalizing, 0)
    /\ UNCHANGED tornDown
    /\ UNCHANGED mediaVars
    /\ UNCHANGED <<variant, isConnected, isListening, messages, audioLevel,
                   frequency, emotionalState, audioAnalyzer,
                   roomVars, asyncVars, loopVars>>

\* the values the volume control sets
Volumes == {Scale \div 2, Scale}

\* changeVolume(newVolume): setVolume, and the volume of the attached audio
\* elements.  volume is a dependency of the effect that registers the room's
\* handlers: when it changes, React runs that effect's cleanup
\* (removeAllListeners, room.disconnect(), close of the audioContext the
\* cleanup's closure holds) and then its body, which registers the handlers
\* again and holds the current audioContext.
ChangeVolume(v) ==
    /\ ~EffectPending
    /\ v \in Volumes
    /\ volume' = v
    /\ IF v = volume
       THEN UNCHANGED <<openContexts, capturedContext, closing, connectPc>>
       ELSE /\ openContexts' = openContexts \ {capturedContext}
            /\ capturedContext' = audioAnalyzer
            /\ closing' = (closing \/ roomState \in {"connected", "connecting"})
            /\ connectPc' = IF connectPc = "roomConnect" /\ roomState = "connecting"
                                  /\ ~closing
                            THEN "aborted" ELSE connectPc
    /\ Unobserved
    /\ UNCHANGED <<vocalizing, tornDown, muteVars>>
    /\ UNCHANGED <<variant, reactVars, roomState, trackSubscribed, sends, now,
                   nextUid, loopVars>>

\* toggleMute(): newMutedState = !isMuted, then the call waits in
\* await room.localParticipant.setMicrophoneEnabled(!newMutedState)
ToggleMuteBegin ==
    /\ InSession
    /\ muteCall = "none"
    /\ muteCall' = IF isMuted THEN "unmute" ELSE "mute"
    /\ Unobserved
    /\ UNCHANGED <<vocalizing, tornDown, isMuted, micEnabled>>
    /\ UNCHANGED <<volume, openContexts, capturedContext>>
    /\ UNCHANGED <<variant, reactVars, roomVars, asyncVars, loopVars>>

\* setMicrophoneEnabled settles: resolved, then setIsMuted(newMutedState) and
\* setIsListening(!newMutedState); or rejected, and toggleMute sets nothing.
\* The calls on the local participant settle in the order they were made:
\* toggleMute is called in a session, after connect() has made its call.
ToggleMuteSettles(ok) ==
    /\ ~EffectPending
    /\ muteCall # "none"
    /\ connectPc # "micEnable"
    /\ muteCall' = "none"
    /\ IF ok
       THEN /\ micEnabled' = (muteCall = "unmute")
            /\ isMuted' = (muteCall = "mute")
            /\ isListening' = (muteCall = "unmute")
       ELSE UNCHANGED <<micEnabled, isMuted, isListening>>
    /\ Unobserved
    /\ UNCHANGED <<vocalizing, tornDown>>
    /\ UNCHANGED <<volume, openContexts, capturedContext>>
    /\ UNCHANGED <<variant, isConnected, isSpeaking, messages, robotState,
                   audioLevel, frequency, emotionalState, audioAnalyzer,
                   roomVars, asyncVars, loopVars>>

(***************************************************************************)
(* Messages.  A text is the sequence of its characters; a payload is what  *)
(* TextDecoder and JSON.parse make of the bytes.                           *)
(***************************************************************************)
Undefined == "undefined"

Texts == {<<"h", "i">>, <<"o", "k", "?">>, <<"g", "o", "!">>, <<"!", "?">>, <<" ">>}

\* the text of a JSON document, as the decoder returns it
RawJson == <<"{", "}">>

\* String.prototype.includes for one character
Includes(t, ch) == \E i \in 1..Len(t) : t[i] = ch

RECURSIVE TrimStart(_)
TrimStart(t) == IF t # <<>> /\ Head(t) = " " THEN TrimStart(Tail(t)) ELSE t

RECURSIVE TrimEnd(_)
TrimEnd(t) ==
    IF t # <<>> /\ t[Len(t)] = " " THEN TrimEnd(SubSeq(t, 1, Len(t) - 1)) ELSE t

\* a trim that removes nothing
TrimNothing(t) == t

\* String.prototype.trim
Trim(t) == TrimEnd(TrimStart(t))

\* truthiness of a state or emotion property: a label, or undefined
Truthy(v) == v # Undefined /\ v # ""

\* a content property that is missing or the empty string
NoContent == <<>>

\* truthiness of a content property
TruthyText(c) == c # NoContent

\* Date.now().toString(): one id per clock reading
ClockId == <<"ts", now>>

\* the id LiveKit gives a text stream: unique per stream
StreamId == <<"lk", nextUid>>

NewMessage(id, role, content) ==
    [id |-> id, role |-> role, content |-> content, uid |-> nextUid]

\* role: participant?.identity === room.localParticipant.identity ? "user" : "assistant"
RoleOf(fromLocal) == IF fromLocal THEN "user" ELSE "assistant"

\* the content heuristic with the exclamation mark looked for first
EmotionFromContentExclamationFirst(content, em) ==
    IF Includes(content, "!") THEN "surprised"
    ELSE IF Includes(content, "?") THEN "confused"
    ELSE em

\* if (content.includes("?")) confused; else if (content.includes("!")) surprised
EmotionFromContent(content, em) ==
    IF Includes(content, "?") THEN "confused"
    ELSE IF Includes(content, "!") THEN "surprised"
    ELSE em

StateValues == RobotStates \cup {"dancing", Undefined}
EmotionValues == EmotionalStates \cup {"sleepy", Undefined}

JsonObject(type, state, emotion, content) ==
    [kind |-> "object", type |-> type, state |-> state, emotion |-> emotion,
     content |-> content, raw |-> RawJson]

(***************************************************************************)
(* part_001: the envelope sendMessage publishes on the data channel, from  *)
(* JSON.stringify and TextEncoder on the sending side to TextDecoder and   *)
(* JSON.parse on the receiving side.                                       *)
(***************************************************************************)
\* a text that JSON.stringify has to escape
QuotedText == <<"\"", "\\">>

\* the texts a participant's sendMessage lets through: if (!text.trim()) return
EnvelopeTexts == {t \in Texts : Trim(t) # <<>>} \cup {QuotedText}

\* the characters of the model's texts and of the envelope, with their UTF-8 bytes
Utf8Table ==
    {<<" ", 32>>, <<"!", 33>>, <<"\"", 34>>, <<",", 44>>, <<":", 58>>, <<"?", 63>>,
     <<"\\", 92>>, <<"a", 97>>, <<"c", 99>>, <<"e", 101>>, <<"g", 103>>,
     <<"h", 104>>, <<"i", 105>>, <<"k", 107>>, <<"m", 109>>, <<"n", 110>>,
     <<"o", 111>>, <<"p", 112>>, <<"s", 115>>, <<"t", 116>>, <<"y", 121>>,
     <<"{", 123>>, <<"}", 125>>}

\* new TextEncoder().encode(data)
TextEncode(t) == [i \in 1..Len(t) |-> (CHOOSE e \in Utf8Table : e[1] = t[i])[2]]

\* new TextDecoder().decode(payload)
TextDecode(b) == [i \in 1..Len(b) |-> (CHOOSE e \in Utf8Table : e[2] = b[i])[1]]

\* the string escapes of JSON.stringify, without them
EscapeJsonVerbatim(t) == t

\* the string escapes of JSON.stringify: a quote and a backslash get a backslash
RECURSIVE EscapeJson(_)
EscapeJson(t) ==
    IF t = <<>> THEN <<>>
    ELSE (IF Head(t) \in {"\"", "\\"} THEN <<"\\", Head(t)>> ELSE <<Head(t)>>)
         \o EscapeJson(Tail(t))

\* {"type":"message","content":"
EnvelopeHead ==
    <<"{", "\"", "t", "y", "p", "e", "\"", ":", "\"", "m", "e", "s", "s", "a",
      "g", "e", "\"", ",", "\"", "c", "o", "n", "t", "e", "n", "t", "\"", ":", "\"">>

\* JSON.stringify({ type: "message", content: text })
StringifyEnvelope(text) == EnvelopeHead \o EscapeJson(text) \o <<"\"", "}">>

\* JSON.parse inside a string literal, after its opening quote: the characters of
\* the string and what follows its closing quote; ok is FALSE for a SyntaxError
RECURSIVE ParseString(_)
ParseString(s) ==
    IF s = <<>> THEN [ok |-> FALSE, value |-> <<>>, rest |-> <<>>]
    ELSE IF Head(s) = "\"" THEN [ok |-> TRUE, value |-> <<>>, rest |-> Tail(s)]
    ELSE IF Head(s) = "\\"
    THEN IF Len(s) >= 2 /\ s[2] \in {"\"", "\\"}
         THEN LET r == ParseString(Tail(Tail(s)))
              IN  [r EXCEPT !.value = <<s[2]>> \o r.value]
         ELSE [ok |-> FALSE, value |-> <<>>, rest |-> <<>>]
    ELSE LET r == ParseString(Tail(s))
         IN  [r EXCEPT !.value = <<Head(s)>> \o r.value]

\* JSON.parse(text) for the documents sendMessage publishes; a text that is not
\* such a document is reported as a text JSON.parse rejects
ParseEnvelope(text) ==
    LET n == Len(EnvelopeHead)
        r == ParseString(SubSeq(text, n + 1, Len(text)))
    IN  IF Len(text) > n /\ SubSeq(text, 1, n) = EnvelopeHead /\ r.ok /\ r.rest = <<"}">>
        THEN [kind |-> "object", type |-> "message", state |-> Undefined,
              emotion |-> Undefined, content |-> r.value, raw |-> text]
        ELSE [kind |-> "notJson", type |-> Undefined, state |-> Undefined,
              emotion |-> Undefined, content |-> NoContent, raw |-> text]

\* what the receiving side makes of the envelope published for a text
Delivered(text) == ParseEnvelope(TextDecode(TextEncode(StringifyEnvelope(text))))

\* what a peer can publish on the data channel
Payloads ==
    {[kind |-> "notJson", type |-> Undefined, state |-> Undefined,
      emotion |-> Undefined, content |-> NoContent, raw |-> <<"h", "i">>],
     [kind |-> "null", type |-> Undefined, state |-> Undefined,
      emotion |-> Undefined, content |-> NoContent, raw |-> <<"n", "u", "l", "l">>]}
    \cup {JsonObject("state", v, Undefined, NoContent) : v \in StateValues}
    \cup {JsonObject("emotion", Undefined, v, NoContent) : v \in EmotionValues}
    \cup {JsonObject("message", Undefined, Undefined, c) : c \in Texts \cup {NoContent}}
    \cup {JsonObject("transcript", Undefined, Undefined, NoContent)}
    \cup {Delivered(c) : c \in EnvelopeTexts}

\* the payload appends a transcript entry in this revision
Appends(p) ==
    CASE variant = "main" -> FALSE
      [] variant = "p1" -> p.kind # "object" \/ p.type = "message"
      [] variant = "p2" -> p.kind = "object" /\ p.type = "message" /\ TruthyText(p.content)

\* a state message that gives way to processing and error
StateMessageTargetGuarded(p) ==
    IF robotState \in {"processing", "error"} THEN robotState ELSE p.state

\* setRobotState(data.state): the value a state message gives robotState
StateMessageTarget(p) == p.state

\* RoomEvent.DataReceived handler
DataReceived(p, fromLocal) ==
    /\ InSession
    /\ p \in Payloads
    /\ Appends(p) => nextUid < MaxMsgs
    /\ IF p.kind # "object"
       THEN \* JSON.parse throws, or data is null and data.type throws
            /\ IF variant = "p1"
               THEN /\ messages' = Append(messages,
                                     NewMessage(ClockId, RoleOf(fromLocal), p.raw))
                    /\ nextUid' = nextUid + 1
               ELSE UNCHANGED <<messages, nextUid>>
            /\ UNCHANGED <<robotState, emotionalState>>
       ELSE IF variant = "p2"
       THEN IF p.type = "message" /\ TruthyText(p.content)
            THEN /\ messages' = Append(messages,
                                  NewMessage(ClockId, RoleOf(fromLocal), p.content))
                 /\ nextUid' = nextUid + 1
                 /\ emotionalState' = EmotionFromContent(p.content, emotionalState)
                 /\ UNCHANGED robotState
            ELSE IF p.type = "state" /\ Truthy(p.state)
            THEN /\ robotState' = StateMessageTarget(p)
                 /\ UNCHANGED <<messages, nextUid, emotionalState>>
            ELSE IF p.type = "emotion" /\ Truthy(p.emotion)
            THEN /\ emotionalState' = p.emotion
                 /\ UNCHANGED <<messages, nextUid, robotState>>
            ELSE UNCHANGED <<messages, nextUid, robotState, emotionalState>>
       ELSE IF p.type = "state"
            THEN /\ robotState' = StateMessageTarget(p)
                 /\ UNCHANGED <<messages, nextUid, emotionalState>>
            ELSE IF p.type = "emotion"
            THEN /\ emotionalState' = p.emotion
                 /\ UNCHANGED <<messages, nextUid, robotState>>
            ELSE IF variant = "p1" /\ p.type = "message"
            THEN /\ messages' = Append(messages,
                                  NewMessage(ClockId, RoleOf(fromLocal),
                                      IF TruthyText(p.content) THEN p.content ELSE p.raw))
                 /\ nextUid' = nextUid + 1
                 /\ UNCHANGED <<robotState, emotionalState>>
            ELSE UNCHANGED <<messages, nextUid, robotState, emotionalState>>
    /\ IF p.kind = "object" /\ p.type = "state"
       THEN ObservedWith("State", p.state) ELSE Unobserved
    /\ UNCHANGED vocalizing
    /\ UNCHANGED tornDown
    /\ UNCHANGED mediaVars
    /\ UNCHANGED <<variant, isConnected, isSpeaking, isListening, audioLevel,
                   frequency, audioAnalyzer, roomVars, connectPc, sends, now,
                   loopVars>>

\* part_001: a remote participant's sendMessage(text) publishes the envelope of
\* the text with publishData, and the room delivers it to this participant
EnvelopeReceived(text) ==
    /\ variant = "p1"
    /\ text \in EnvelopeTexts
    /\ DataReceived(Delivered(text), FALSE)

\* useLiveKit.ts: RoomEvent.TextReceived handler; onChat: info.topic === 'lk.chat',
\* hasId: info.id is set
TextReceived(text, onChat, hasId, fromLocal) ==
    /\ InSession
    /\ variant = "main"
    /\ text \in Texts
    /\ IF onChat
       THEN /\ nextUid < MaxMsgs
            /\ messages' = Append(messages,
                             NewMessage(IF hasId THEN StreamId ELSE ClockId,
                                        RoleOf(fromLocal), text))
            /\ nextUid' = nextUid + 1
            /\ emotionalState' = EmotionFromContent(text, emotionalState)
       ELSE UNCHANGED <<messages, nextUid, emotionalState>>
    /\ Unobserved /\ UNCHANGED vocalizing
    /\ UNCHANGED tornDown
    /\ UNCHANGED mediaVars
    /\ UNCHANGED <<variant, isConnected, isSpeaking, isListening, robotState,
                   audioLevel, frequency, audioAnalyzer, roomVars, connectPc,
                   sends, now, loopVars>>

\* the texts sendMessage is called with: those of the model and the empty text
SentTexts == Texts \cup {<<>>}

\* sendMessage(text): the optimistic append, then the transmission is pending
SendMessage(text) ==
    /\ ~EffectPending
    /\ text \in SentTexts
    /\ IF ~isConnected \/ Trim(text) = <<>>
       THEN UNCHANGED <<messages, sends, nextUid>>
       ELSE /\ nextUid < MaxMsgs
            /\ messages' = Append(messages, NewMessage(ClockId, "user", text))
            /\ sends' = sends \cup {[id |-> ClockId, uid |-> nextUid]}
            /\ nextUid' = nextUid + 1
    /\ Unobserved /\ UNCHANGED vocalizing
    /\ UNCHANGED tornDown
    /\ UNCHANGED mediaVars
    /\ UNCHANGED <<variant, isConnected, isSpeaking, isListening, robotState,
                   audioLevel, frequency, emotionalState, audioAnalyzer,
                   roomVars, connectPc, now, loopVars>>

\* setMessages((prev) => prev.filter((msg) => msg.id !== message.id))
Rollback(prev, id) == SelectSeq(prev, LAMBDA m : m.id # id)

\* the transmission of a sent message settles: resolved, or rejected and rolled back
SendSettles(s, ok) ==
    /\ ~EffectPending
    /\ s \in sends
    /\ sends' = sends \ {s}
    /\ messages' = IF ok THEN messages ELSE Rollback(messages, s.id)
    /\ Unobserved /\ UNCHANGED vocalizing
    /\ UNCHANGED tornDown
    /\ UNCHANGED mediaVars
    /\ UNCHANGED <<variant, isConnected, isSpeaking, isListening, robotState,
                   audioLevel, frequency, emotionalState, audioAnalyzer,
                   roomVars, connectPc, now, nextUid, loopVars>>

\* time passes: Date.now() returns a later reading
ClockAdvance ==
    /\ ~EffectPending
    /\ now < MaxClock
    /\ now' = now + 1
    /\ Unobserved /\ UNCHANGED vocalizing
    /\ UNCHANGED tornDown
    /\ UNCHANGED mediaVars
    /\ UNCHANGED <<variant, reactVars, roomVars, connectPc, sends, nextUid, loopVars>>

(***************************************************************************)
(* The specification.                                                      *)
(***************************************************************************)
\* connect(url, token), disconnect() and the room's connection lifecycle
SessionNext ==
    \/ ConnectBegin(TRUE)
    \/ RoomConnectResolves
    \/ RoomConnectRejects
    \/ MicEnableResolves
    \/ MicEnableRejects
    \/ Disconnect
    \/ ConnectAborted
    \/ RoomClosed
    \/ RemoteDisconnect

\* connect() without arguments: the credentials come from the backend
FetchNext ==
    \/ ConnectBegin(FALSE)
    \/ \E outcome \in FetchOutcomes : FetchSettles(outcome)
    \/ FetchTimeout

RunEffect == \E w \in Windows : AnalysisEffect(w)

\* the remote audio track, its events and the frame loop
AudioNext ==
    \/ \E w \in Windows : Tick(w)
    \/ RunEffect
    \/ TrackSubscribed
    \/ \E isPlaying \in BOOLEAN : AudioPlaybackStatusChanged(isPlaying)
    \/ \E muted \in BOOLEAN : TrackMuteChanged(muted)

\* data-channel payloads that append nothing to the transcript: state messages
\* and payloads to ignore
StateNext ==
    \E p \in Payloads, fromLocal \in BOOLEAN :
        ~Appends(p) /\ p.type # "emotion" /\ DataReceived(p, fromLocal)

\* emotion messages
EmotionNext ==
    \E p \in Payloads, fromLocal \in BOOLEAN :
        p.type = "emotion" /\ DataReceived(p, fromLocal)

\* transcript traffic; the room delivers what remote participants publish, and
\* the peer publishes no blank text
ChatTexts == Texts \ {<<"!", "?">>}
PeerTexts == {t \in ChatTexts : Trim(t) # <<>>}

ChatNext ==
    \/ \E p \in Payloads :
          Appends(p) /\ p.content \in PeerTexts \cup {NoContent} /\ DataReceived(p, FALSE)
    \/ \E text \in PeerTexts, onChat, hasId \in BOOLEAN :
          TextReceived(text, onChat, hasId, FALSE)
    \/ \E text \in ChatTexts : SendMessage(text)
    \/ \E s \in sends, ok \in BOOLEAN : SendSettles(s, ok)
    \/ ClockAdvance

\* content messages of a remote participant, with every mark a text can carry
ContentNext ==
    \/ \E text \in Texts, onChat, hasId \in BOOLEAN :
          Trim(text) # <<>> /\ TextReceived(text, onChat, hasId, FALSE)
    \/ \E p \in Payloads :
          p.kind = "object" /\ p.type = "message" /\ DataReceived(p, FALSE)

\* part_001: the messages of a remote participant running the same hook
EnvelopeNext ==
    \/ \E text \in EnvelopeTexts : EnvelopeReceived(text)
    \/ ClockAdvance

\* sendMessage with every text, and the transmissions
SendNext ==
    \/ \E text \in SentTexts : SendMessage(text)
    \/ \E s \in sends, ok \in BOOLEAN : SendSettles(s, ok)

\* the mute button
MuteNext ==
    \/ ToggleMuteBegin
    \/ \E ok \in BOOLEAN : ToggleMuteSettles(ok)

\* track subscriptions and the volume control
MediaNext ==
    \/ TrackSubscribed
    \/ \E v \in Volumes : ChangeVolume(v)

Next ==
    \/ SessionNext \/ FetchNext \/ AudioNext \/ StateNext \/ EmotionNext
    \/ ChatNext \/ MediaNext \/ EnvelopeNext \/ MuteNext \/ SendNext

Spec == Init /\ [][Next]_vars

\* a session of audio and state messages, the caller passing url and token
SpecAudio == Init /\ [][SessionNext \/ AudioNext \/ StateNext]_vars

\* a session of chat traffic whose peer publishes no audio track
SpecChat == Init /\ [][SessionNext \/ RunEffect \/ ChatNext]_vars

\* sessions, track subscriptions and the volume control
SpecMedia == Init /\ [][SessionNext \/ RunEffect \/ MediaNext]_vars

\* a session and the messages the user sends
SpecSend == Init /\ [][SessionNext \/ RunEffect \/ SendNext]_vars

\* a session and the mute button
SpecMute == Init /\ [][SessionNext \/ RunEffect \/ MuteNext]_vars

\* a session with content messages and emotion messages
SpecContent == Init /\ [][SessionNext \/ RunEffect \/ ContentNext \/ EmotionNext]_vars

\* a session and the envelopes a remote participant publishes in it
SpecEnvelope == Init /\ [][SessionNext \/ RunEffect \/ EnvelopeNext]_vars

\* the connection attempts, the credentials fetched from the backend
SpecConnect == Init /\ [][SessionNext \/ FetchNext \/ RunEffect]_vars

\* what the runtime and the libraries do in bounded time on their own: React
\* runs a pending effect, the 4000 ms timer of fetchWithTimeout fires, the
\* rejection of an aborted room.connect is delivered, room.disconnect()
\* finishes, and room.connect settles (the client gives up a connection that
\* does not open).  A plain fetch waits for its response without a limit.
ConnectFairness ==
    /\ WF_vars(RunEffect)
    /\ WF_vars(FetchTimeout)
    /\ WF_vars(ConnectAborted)
    /\ WF_vars(RoomClosed)
    /\ WF_vars(RoomConnectResolves \/ RoomConnectRejects)

SpecConnectFair ==
    Init /\ [][SessionNext \/ FetchNext \/ RunEffect]_vars /\ ConnectFairness

(***************************************************************************)
(* Properties.                                                             *)
(***************************************************************************)
\* a call of analyzeAudio: a frame of a scheduled loop, or the call the effect
\* makes when it starts a loop
FrameStep == \E w \in Windows : Tick(w) \/ AnalysisEffect(w)

\* the inputs of the fused signal: a frame, a playback event, a muted or unmuted
\* event of the remote track
FusedSignalStep ==
    \/ FrameStep
    \/ \E isPlaying \in BOOLEAN : AudioPlaybackStatusChanged(isPlaying)
    \/ \E muted \in BOOLEAN : TrackMuteChanged(muted)

\* C1: while robotState is error or processing, no input of the fused signal (a
\* frame, an AudioPlaybackStatusChanged event, a muted or unmuted event of the
\* remote track) changes robotState.
C1_FusedSignalKeepsErrorAndProcessing ==
    [][(robotState \in {"error", "processing"} /\ FusedSignalStep)
          => robotState' = robotState]_vars

\* C2: in part_002, once a state message has set robotState to thinking (no other
\* step sets that value), robotState stays thinking over the frames that follow,
\* those whose audio indicates speech and those that turn isSpeaking false.
C2_ThinkingSurvivesFrames ==
    [][(variant = "p2" /\ robotState = "thinking" /\ FrameStep)
          => robotState' = "thinking"]_vars

\* C3: a Connected event that finds robotState idle sets it to listening, and a
\* Disconnected event sets robotState to idle and isConnected and isSpeaking to
\* false, whatever robotState it finds.
C3_ConnectedAndDisconnected ==
    /\ (lastStep.ev = "Connected" /\ lastStep.rs = "idle")
          => robotState = "listening" /\ isConnected
    /\ lastStep.ev = "Disconnected"
          => robotState = "idle" /\ ~isConnected /\ ~isSpeaking

\* a Connected event has just run on robotState idle: the room of an aborted
\* attempt closed, and emitted Disconnected, while the next attempt waited
C3_ConnectedFromIdle ==
    /\ lastStep.ev = "Connected"
    /\ lastStep.rs = "idle"
    /\ robotState = "listening"

\* C4: hysteresis of part_002's frame loop, for the smoothed level of a frame
\* and for the level it publishes: after a frame whose level is above 0.05
\* isSpeaking is true; a frame whose level lies between 0.02 and 0.05 leaves a
\* true isSpeaking true; a frame turns isSpeaking false only when its level is
\* below 0.02.
C4_Hysteresis ==
    (variant = "p2" /\ lastStep.ev = "Tick") =>
        \A level \in {lastAudioLevel, audioLevel} :
            /\ level * 100 > 5 * Scale => isSpeaking
            /\ (lastStep.sp /\ level * 100 >= 2 * Scale /\ level * 100 <= 5 * Scale)
                  => isSpeaking
            /\ (lastStep.sp /\ ~isSpeaking) => level * 100 < 2 * Scale

\* a frame has just left isSpeaking true on a smoothed level inside the band
C4_FrameInsideBand ==
    /\ variant = "p2"
    /\ lastStep.ev = "Tick"
    /\ lastStep.sp
    /\ isSpeaking
    /\ lastAudioLevel * 100 >= 2 * Scale
    /\ lastAudioLevel * 100 <= 5 * Scale

\* C5: in every reachable state the published audioLevel lies within [0, 1],
\* whatever sample windows the analyser delivered and whatever events arrived.
C5_AudioLevelInUnitInterval == audioLevel \in 0..Scale

\* a frame of samples at full swing has just published the level 1
C5_FullLevelPublished ==
    /\ lastStep.ev = "Tick"
    /\ audioLevel = Scale

\* the peer's unmuted / playback event stands, and either the analysed level
\* has been below 0.01 for 5 frames in a row, the last of them just now, or the
\* effect has run without an analyser
SubstitutionDue ==
    /\ variant = "p2"
    /\ vocalizing >= 0
    /\ \/ lastStep.ev = "Tick" /\ vocalizing = 5
       \/ audioAnalyzer = 0 /\ ~EffectPending

\* C6: fallback substitution in part_002: when the analysed level has been
\* below 0.01 for 5 frames in a row, or there is no analyser, while the peer's
\* unmuted / playback event stands, the published audioLevel lies within
\* [0.2, 0.6] and isSpeaking is true.
C6_FallbackSubstitution ==
    SubstitutionDue =>
        /\ audioLevel * 10 >= 2 * Scale
        /\ audioLevel * 10 <= 6 * Scale
        /\ isSpeaking

\* C7: when the transmission of a sent message fails, the transcript becomes
\* what it would be had sendMessage not been called: the entry that call made
\* is removed, every other entry is kept, in its order.
C7_FailedSendRemovesOnlyItsEntry ==
    [][\A s \in sends :
          SendSettles(s, FALSE)
             => messages' = SelectSeq(messages, LAMBDA m : m.uid # s.uid)]_vars

\* a payload that is not JSON, or JSON whose type is none of message, state, emotion
Unrecognized(p) == p.kind # "object" \/ p.type \notin {"message", "state", "emotion"}

\* C8: a DataReceived payload that is not valid JSON, or whose type is none of
\* message, state and emotion, leaves robotState, emotionalState and the
\* transcript as they are.
C8_UnrecognizedPayloadIsDropped ==
    [][\A p \in Payloads, fromLocal \in BOOLEAN :
          (Unrecognized(p) /\ DataReceived(p, fromLocal))
             => UNCHANGED <<robotState, emotionalState, messages>>]_vars

\* C9: a state message that names one of the six robot states sets robotState
\* to that state, whatever robotState it finds, processing and error included.
C9_StateMessageSetsRobotState ==
    (lastStep.ev = "State" /\ lastStep.arg \in RobotStates)
        => robotState = lastStep.arg

\* a state message has just moved robotState from error to thinking
C9_ThinkingFromError ==
    /\ lastStep.ev = "State"
    /\ lastStep.arg = "thinking"
    /\ lastStep.rs = "error"
    /\ robotState = "thinking"

\* C10: every connect() call that sets robotState to processing is followed,
\* sooner or later, by robotState leaving processing: also when the backend or
\* the room never answers, and when disconnect() is called during the attempt.
C10_ProcessingEnds == (robotState = "processing") ~> (robotState # "processing")

\* a step in which an await of connect() fails, or a check of what it fetched
ConnectStepFails ==
    \/ \E outcome \in FetchOutcomes :
          /\ FetchSettles(outcome)
          /\ outcome # "ok"
          /\ ~(variant = "p2" /\ outcome \in {"notOk", "throws"}
                 /\ NextEndpoint(connectPc) # "throw")
    \/ RoomConnectRejects
    \/ MicEnableRejects
    \/ ConnectAborted

\* C11: when a step of connect() fails (a credential fetch, a missing or
\* placeholder url, a missing token, room.connect, enabling the microphone),
\* robotState becomes error and connect() rejects with the error; and no
\* connection attempt starts but by a call of connect().
C11_FailedConnectEndsInError ==
    [][/\ ConnectStepFails
             => /\ robotState' = "error"
                /\ connectPc' = "idle"
                /\ lastStep' = [ev |-> "ConnectSettled", rs |-> robotState,
                                sp |-> isSpeaking, arg |-> "rejected"]
       /\ (connectPc = "idle" /\ connectPc' # "idle")
             => ConnectBegin(TRUE) \/ ConnectBegin(FALSE)]_vars

\* connect() of part_002 has just rejected before the room was connected: a
\* credential request failed at both backends, or room.connect was refused
C11_ConnectRejected ==
    /\ variant = "p2"
    /\ lastStep.ev = "ConnectSettled"
    /\ lastStep.arg = "rejected"
    /\ lastStep.rs = "processing"
    /\ robotState = "error"
    /\ connectPc = "idle"
    /\ roomState = "disconnected"

\* C12: from a Disconnected event until connect() is called again, no frame of
\* the analysis loop runs (none writes audioLevel, frequency, isSpeaking,
\* emotionalState or robotState), isSpeaking is false and robotState is idle,
\* and once React has run the effect audioLevel and frequency are 0.
C12_NoFramesAfterDisconnected ==
    tornDown =>
        /\ lastStep.ev # "Tick"
        /\ ~isSpeaking
        /\ robotState = "idle"
        /\ ~EffectPending => audioLevel = 0 /\ frequency = 0

\* C13: once a session is torn down (the room is disconnected again, by
\* disconnect(), by the room, or by the cleanup of the room effect), every
\* AudioContext a TrackSubscribed handler created is closed.
C13_ContextsClosedAfterTeardown ==
    (roomState = "disconnected" /\ ~closing) => openContexts = {}

\* C14: when a session has ended, by disconnect() or by a Disconnected event
\* the room raised on its own, the transcript is empty when connect() is called
\* for the next session.
C14_TranscriptEmptyBeforeNextSession ==
    [][(tornDown /\ (ConnectBegin(TRUE) \/ ConnectBegin(FALSE)))
          => messages = <<>>]_vars

\* C15: for every non-blank text c, the envelope sendMessage encodes for c, fed
\* to the DataReceived handler, appends exactly one transcript entry; its
\* content is c and its id is generated by the handler on receipt.
C15_MessageRoundTrip ==
    [][\A c \in EnvelopeTexts :
          EnvelopeReceived(c) =>
              /\ Len(messages') = Len(messages) + 1
              /\ SubSeq(messages', 1, Len(messages)) = messages
              /\ messages'[Len(messages')].content = c
              /\ messages'[Len(messages')].id = ClockId
              /\ messages'[Len(messages')].uid \notin {messages[i].uid : i \in 1..Len(messages)}]_vars

\* C15 witness: the envelope of a text with a quote and a backslash has been
\* received and its entry is in the transcript.
C15_EscapedTextReceived ==
    \E i \in 1..Len(messages) :
        messages[i].content = QuotedText /\ messages[i].role = "assistant"

\* C16: at every point of a session no two transcript entries have the same id,
\* whatever the interleaving of sendMessage calls and inbound messages, two
\* messages created at the same clock reading included.
C16_TranscriptIdsUnique ==
    \A i, j \in 1..Len(messages) : i # j => messages[i].id # messages[j].id

\* a content message with content c is received: a text stream on the lk.chat
\* topic in useLiveKit.ts, a message payload with a content in part_002
ContentReceived(c) ==
    \/ \E hasId \in BOOLEAN : TextReceived(c, TRUE, hasId, FALSE)
    \/ /\ variant = "p2"
       /\ \E p \in Payloads :
             p.kind = "object" /\ p.type = "message" /\ p.content = c
             /\ DataReceived(p, FALSE)

\* C17 as stated: after a content message is received emotionalState is confused
\* if the message contains "?" and surprised if it contains "!"; a message with
\* neither leaves emotionalState unchanged.
C17_ContentHeuristic ==
    [][\A c \in Texts :
          ContentReceived(c) =>
              /\ Includes(c, "?") => emotionalState' = "confused"
              /\ Includes(c, "!") => emotionalState' = "surprised"
              /\ (~Includes(c, "?") /\ ~Includes(c, "!")) =>
                     emotionalState' = emotionalState]_vars

\* C17 amended: the question mark is looked for first; after a content message
\* emotionalState is confused if the message contains "?", surprised if it
\* contains "!" and no "?", and unchanged if it contains neither.
C17_ContentHeuristicQuestionFirst ==
    [][\A c \in Texts :
          ContentReceived(c) =>
              /\ Includes(c, "?") => emotionalState' = "confused"
              /\ (Includes(c, "!") /\ ~Includes(c, "?")) => emotionalState' = "surprised"
              /\ (~Includes(c, "?") /\ ~Includes(c, "!")) =>
                     emotionalState' = emotionalState]_vars

\* C17 witness: the text with both marks is in the transcript, received from the
\* remote participant, and emotionalState is confused.
C17_BothMarksReceived ==
    /\ emotionalState = "confused"
    /\ variant \in {"main", "p2"}
    /\ messages # <<>>
    /\ messages[Len(messages)].content = <<"!", "?">>

\* C18: after every sequence of events, state and emotion messages with an
\* arbitrary or a missing value included, robotState is one of the six robot
\* states and emotionalState is one of the five emotional states.
C18_StatesWithinEnums ==
    /\ robotState \in RobotStates
    /\ emotionalState \in EmotionalStates

\* C19: when an input of the fused signal turns isSpeaking from true to false,
\* robotState becomes listening if it is speaking and is left unchanged if it
\* is idle, listening, thinking, processing or error.
C19_SpeakingStopsToListening ==
    [][(FusedSignalStep /\ isSpeaking /\ ~isSpeaking')
          => robotState' = IF robotState = "speaking" THEN "listening" ELSE robotState]_vars

\* C20: on each frame tick the audio path sets emotionalState to happy when the
\* level of the frame is above 0.7, to neutral when it is above 0.4 and at most
\* 0.7, and leaves emotionalState unchanged when it is at most 0.4.
C20_EmotionFromAudioLevel ==
    [][lastStep'.ev = "Tick" =>
          emotionalState' =
              IF audioLevel' * 10 > 7 * Scale THEN "happy"
              ELSE IF audioLevel' * 10 > 4 * Scale THEN "neutral"
              ELSE emotionalState]_vars

\* C20 witness: a frame with a level above 0.7 has made emotionalState happy.
C20_LoudFrameMadeHappy ==
    /\ lastStep.ev = "Tick"
    /\ audioLevel * 10 > 7 * Scale
    /\ emotionalState = "happy"

C22_EmotionChangesOnlyByRule ==
    [][emotionalState' # emotionalState =>
          \/ lastStep'.ev = "Tick" /\ audioLevel' * 10 > 4 * Scale
          \/ \E c \in Texts :
                (Includes(c, "?") \/ Includes(c, "!")) /\ ContentReceived(c)
          \/ \E p \in Payloads, fromLocal \in BOOLEAN :
                p.type = "emotion" /\ DataReceived(p, fromLocal)
          \/ lastStep'.ev = "SpeakingStopped" /\ lastStep'.rs \in {"thinking", "idle"}]_vars

\* C23: while no analyzer is attached, audioLevel and frequency are 0, and in
\* a connected session a playback event, a state message and a Disconnected
\* event can be handled without waiting for the analyzer.
C23_NoAnalyzerNoBlocking ==
    audioAnalyzer = 0 =>
        /\ audioLevel = 0
        /\ frequency = 0
        /\ (roomState = "connected" /\ ~closing /\ ~EffectPending) =>
               /\ ENABLED AudioPlaybackStatusChanged(TRUE)
               /\ ENABLED RemoteDisconnect
               /\ ENABLED DataReceived(JsonObject("state", "thinking", Undefined, NoContent), FALSE)

\* C23 witness: a playback event has been handled in a connected session that
\* has no analyzer yet.
C23_SpeakingWithoutAnalyzer ==
    /\ audioAnalyzer = 0
    /\ isConnected
    /\ robotState = "speaking"
    /\ audioLevel = 0

\* C24: changeVolume(v) changes the volume only: it neither disconnects the
\* room nor interrupts a connection attempt, it closes no audio context, and
\* after it isConnected is true exactly when the room is connected and stays so.
C24_ChangeVolumeOnlySetsVolume ==
    [][\A v \in Volumes :
          ChangeVolume(v) =>
              /\ UNCHANGED <<roomState, closing, connectPc, openContexts>>
              /\ isConnected' <=> (roomState' = "connected" /\ ~closing')]_vars

\* C25: at most one analysis frame loop is scheduled at any time, and a loop
\* that a re-run of the effect has stopped performs no further tick: in
\* useLiveKit.ts and part_001, whose loop runs while isSpeaking, no tick is
\* taken once the effect has run with isSpeaking false.
C25_AtMostOneLoop ==
    /\ loops <= 1
    /\ (variant # "p2" /\ ~isSpeaking /\ ~EffectPending) => lastStep.ev # "Tick"

\* C26: after a frame of part_002's loop the published audioLevel is not
\* strictly between 0.01 and 0.1, so it is not in the band from 0.02 to 0.05,
\* and isSpeaking is true exactly when the smoothed level is above 0.01.
C26_PublishedLevelSkipsBand ==
    (variant = "p2" /\ lastStep.ev = "Tick") =>
        /\ ~(audioLevel * 100 > Scale /\ audioLevel * 10 < Scale)
        /\ ~(audioLevel * 100 >= 2 * Scale /\ audioLevel * 100 <= 5 * Scale)
        /\ isSpeaking <=> (lastAudioLevel * 100 > Scale)

\* C26 witness: a frame whose smoothed level is between 0.01 and 0.1 has
\* published 0.1 and left isSpeaking true.
C26_LowLevelRaised ==
    /\ variant = "p2"
    /\ lastStep.ev = "Tick"
    /\ lastAudioLevel * 100 > Scale
    /\ lastAudioLevel * 10 < Scale
    /\ audioLevel * 10 = Scale
    /\ isSpeaking

\* C27: when a connect() call or a toggleMute() call has completed in a
\* connected session (no other step changes the microphone, isMuted or
\* isListening), isMuted is true exactly when the local microphone is disabled,
\* and isListening equals not isMuted; so after mute, disconnect and reconnect.
C27_MuteStateMatchesMicrophone ==
    [][(MicEnableResolves \/ ToggleMuteSettles(TRUE)) =>
          /\ isMuted' <=> ~micEnabled'
          /\ isListening' <=> ~isMuted']_vars

\* C28: when connect() has rejected and set robotState to error, isConnected
\* is false, also when room.connect resolved and enabling the microphone
\* failed.
C28_FailedConnectNotConnected ==
    (lastStep.ev = "ConnectSettled" /\ lastStep.arg = "rejected") =>
        robotState = "error" /\ ~isConnected

\* a text that is empty or holds spaces only
Blank(t) == \A i \in 1..Len(t) : t[i] = " "

\* C29: sendMessage(text) appends nothing and transmits nothing when the
\* session is not connected or the text is blank; when connected with a text
\* that is not blank it appends exactly one entry, with role user and the text
\* as content, and the transmission of that entry is then pending.
C29_SendMessageGuards ==
    [][\A text \in SentTexts :
          SendMessage(text) =>
              IF ~isConnected \/ Blank(text)
              THEN messages' = messages /\ sends' = sends
              ELSE /\ Len(messages') = Len(messages) + 1
                   /\ SubSeq(messages', 1, Len(messages)) = messages
                   /\ messages'[Len(messages')].role = "user"
                   /\ messages'[Len(messages')].content = text
                   /\ \E s \in sends' :
                         /\ sends' = sends \cup {s}
                         /\ s \notin sends
                         /\ s.uid = messages'[Len(messages')].uid]_vars

\* C29 witness: a connected session holds an entry of the user whose
\* transmission is pending.
C29_SentEntryPending ==
    /\ isConnected
    /\ messages # <<>>
    /\ messages[Len(messages)].role = "user"
    /\ \E s \in sends : s.uid = messages[Len(messages)].uid

\* the request to the local backend, and the one to the remote backend, that
\* fetchFromBackend makes for the url and for the token
LocalStages == {"fetchUrlLocal", "fetchTokenLocal"}
RemoteStages == {"fetchUrlRemote", "fetchTokenRemote"}
RemoteOf(pc) == IF pc = "fetchUrlLocal" THEN "fetchUrlRemote" ELSE "fetchTokenRemote"
ReturnedFrom(pc) ==
    IF pc \in {"fetchUrlLocal", "fetchUrlRemote"} THEN "fetchTokenLocal" ELSE "roomConnect"

\* C30: fetchFromBackend of part_002 asks the local backend first and returns
\* its response when that is ok; it asks the remote backend only after the
\* local request returned a non-ok status, threw or timed out, returns the
\* remote response when that is ok, and throws only when both requests failed.
C30_LocalThenRemote ==
    [][variant = "p2" =>
          /\ \A pc \in LocalStages :
                /\ (connectPc = pc /\ FetchSettles("ok")) => connectPc' = ReturnedFrom(pc)
                /\ (connectPc = pc /\ (FetchSettles("notOk") \/ FetchSettles("throws")
                                        \/ FetchTimeout))
                      => connectPc' = RemoteOf(pc) /\ robotState' = robotState
          /\ \A pc \in RemoteStages :
                /\ (connectPc = pc /\ FetchSettles("ok")) => connectPc' = ReturnedFrom(pc)
                /\ (connectPc = pc /\ (FetchSettles("notOk") \/ FetchSettles("throws")))
                      => connectPc' = "idle" /\ robotState' = "error"
          /\ (connectPc' \in RemoteStages /\ connectPc' # connectPc)
                => connectPc \in LocalStages /\ connectPc' = RemoteOf(connectPc)]_vars

\* C30 witness: the local request for the url has failed and the remote
\* backend is being asked.
C30_RemoteAsked ==
    /\ variant = "p2"
    /\ connectPc = "fetchUrlRemote"
    /\ robotState = "processing"
====
